---- MODULE Spec2Model ----
(***************************************************************************)
(* A model of GitGenie.py: the batch scheduler process_repositories with   *)
(* its collaborators check_access, git_commit and reset_changes, and the   *)
(* statistics store RepositoryStatistics (load_stats, save_stats,          *)
(* add_commit, update_commit_streak).                                      *)
(***************************************************************************)
EXTENDS Integers, Sequences, FiniteSets, TLC

(* ------------------------------ bounds -------------------------------- *)
\* number of candidate repositories handed to process_repositories
NumRepos == 2
\* largest total the user types at the budget prompt
MaxTotal == 4
\* largest floor(random.expovariate(1/3)) drawn in a batch
MaxExpo == 1
\* number of commits in every repository's history before the batch
BaseHist == 2

\* number of add_commit calls made on the store
MaxCommits == 3
\* number of consecutive calendar days commits are dated on
NumDays == 3
\* number of add_commit calls when saves may fail or two instances write
MaxIOCommits == 2
\* number of add_commit calls when only the commit dates vary
MaxStreakCommits == 4
\* largest floor(random.expovariate(1/3)) tried on calculate_commits alone:
\* -3 * ln(2^-53), the largest value random.expovariate(1/3) returns, is 110.2
MaxSample == 110

Repos == 1..NumRepos
\* the list `repositories` of main()
repositories == [r \in Repos |-> r]

\* Python's None, and the falsy test `if x:` applied to a string-or-None
None == <<>>
Truthy(x) == x # None

(* ------------------------- sequence helpers --------------------------- *)
Range(s) == {s[k] : k \in 1..Len(s)}

RECURSIVE SumOver(_, _)
SumOver(f, S) ==
    IF S = {} THEN 0
    ELSE LET x == CHOOSE y \in S : TRUE IN f[x] + SumOver(f, S \ {x})

Min(a, b) == IF a <= b THEN a ELSE b
Max(a, b) == IF a >= b THEN a ELSE b

\* random.sample(population, k): every arrangement of k distinct elements
Sample(population, k) ==
    {s \in [1..k -> Range(population)] : \A a, b \in 1..k : a # b => s[a] # s[b]}

\* [x for x in seq if keep[x]] (order preserved)
RECURSIVE FilterSeq(_, _)
FilterSeq(seq, keep) ==
    IF seq = <<>> THEN <<>>
    ELSE IF keep[Head(seq)] THEN <<Head(seq)>> \o FilterSeq(Tail(seq), keep)
         ELSE FilterSeq(Tail(seq), keep)

(* --------------------------- calculate_commits ------------------------ *)
\* the cap of calculate_commits: min(49, ...)
CommitCap == 49
\* mutant: the count is not capped
calculate_commits_uncapped(draw) == 1 + draw

\* 1 + min(49, math.floor(x)) where draw = math.floor(random.expovariate(1/3))
calculate_commits(draw) == 1 + Min(CommitCap, draw)

(* ------------------------- datetime (stdlib) -------------------------- *)
\* A timestamp string 'YYYY-MM-DD HH:MM:SS' is the tuple <<Y, M, D, H>>
\* (minutes and seconds are never read by the program); a date string
\* 'YYYY-MM-DD' is the tuple <<Y, M, D>>; a datetime / date object is a record.
IsLeap(y) == (y % 4 = 0) /\ ((y % 100 # 0) \/ (y % 400 = 0))

DaysInMonth(y, m) ==
    IF m = 2 THEN (IF IsLeap(y) THEN 29 ELSE 28)
    ELSE IF m \in {4, 6, 9, 11} THEN 30 ELSE 31

DaysBeforeYear(y) ==
    LET p == y - 1 IN p * 365 + (p \div 4) - (p \div 100) + (p \div 400)

RECURSIVE DaysBeforeMonth(_, _)
DaysBeforeMonth(y, m) ==
    IF m <= 1 THEN 0 ELSE DaysInMonth(y, m - 1) + DaysBeforeMonth(y, m - 1)

\* date.toordinal()
toordinal(d) == DaysBeforeYear(d.year) + DaysBeforeMonth(d.year, d.month) + d.day

\* datetime.strptime(timestamp, '%Y-%m-%d %H:%M:%S')
strptime_timestamp(ts) == [year |-> ts[1], month |-> ts[2], day |-> ts[3], hour |-> ts[4]]
\* datetime.date()
date_of(dt) == [year |-> dt.year, month |-> dt.month, day |-> dt.day]
\* datetime.strptime(s, '%Y-%m-%d').date()
strptime_date(s) == [year |-> s[1], month |-> s[2], day |-> s[3]]
\* date.strftime('%Y-%m-%d')
strftime_date(d) == <<d.year, d.month, d.day>>
\* (a - b).days
days_between(a, b) == toordinal(a) - toordinal(b)
\* datetime.weekday(): Monday is 0
weekday(d) == (toordinal(d) + 6) % 7

(* ----------------------- RepositoryStatistics ------------------------- *)
\* length of active_hours and of active_days
HoursPerDay == 24
DaysPerWeek == 7

\* a Python dict is a function on its keys; {} is the empty function
EmptyDict == <<>>
HasKey(d, k) == k \in DOMAIN d
SetItem(d, k, v) == [x \in (DOMAIN d) \cup {k} |-> IF x = k THEN v ELSE d[x]]

\* the structure load_stats builds when the file does not exist
FreshStats ==
    [repositories |-> EmptyDict,
     total_commits |-> 0,
     commit_history |-> <<>>,
     developer_patterns |-> EmptyDict,
     most_active_times |-> EmptyDict,
     file_complexity |-> EmptyDict,
     commit_streaks |-> [current |-> 0, longest |-> 0, last_commit_date |-> None]]

\* the repository entry add_commit creates
FreshRepoStats ==
    [total_commits |-> 0,
     files |-> EmptyDict,
     last_commit |-> None,
     commit_types |-> EmptyDict,
     active_hours |-> [h \in 0..(HoursPerDay - 1) |-> 0],
     active_days |-> [d \in 0..(DaysPerWeek - 1) |-> 0]]

\* the file entry add_commit creates
FreshFileStats ==
    [commits |-> 0,
     last_modified |-> None,
     changes_per_month |-> EmptyDict,
     complexity_score |-> 0]

\* json.dump / json.load of a string-or-None field: null or a JSON string
json_encode_str(x) == IF x = None THEN <<"null">> ELSE <<"str", x>>
json_decode_str(v) == IF v[1] = "null" THEN None ELSE v[2]

json_dump_file(f) == [f EXCEPT !.last_modified = json_encode_str(@)]
json_load_file(f) == [f EXCEPT !.last_modified = json_decode_str(@)]

json_dump_repo(r) ==
    [r EXCEPT !.last_commit = json_encode_str(@),
              !.files = [k \in DOMAIN @ |-> json_dump_file(@[k])]]
json_load_repo(r) ==
    [r EXCEPT !.last_commit = json_decode_str(@),
              !.files = [k \in DOMAIN @ |-> json_load_file(@[k])]]

\* json.dump(self.stats, f, indent=4): the document written
json_dump(st) ==
    [st EXCEPT !.repositories = [k \in DOMAIN @ |-> json_dump_repo(@[k])],
               !.commit_streaks.last_commit_date = json_encode_str(@)]
\* mutant: the streak date is not read back
json_load_without_date(doc) ==
    [doc EXCEPT !.repositories = [k \in DOMAIN @ |-> json_load_repo(@[k])],
                !.commit_streaks.last_commit_date = None]

\* json.load(f) of such a document
json_load(doc) ==
    [doc EXCEPT !.repositories = [k \in DOMAIN @ |-> json_load_repo(@[k])],
                !.commit_streaks.last_commit_date = json_decode_str(@)]

\* the content of repository_stats.json: missing, not JSON, or a document
FileAbsent == <<"absent">>
FileCorrupt == <<"corrupt">>
FileUnreadable == <<"unreadable">>
FileWith(doc) == <<"doc", doc>>

\* load_stats: only FileNotFoundError is caught; a JSONDecodeError (not JSON)
\* or another OSError of open (PermissionError, IsADirectoryError) propagates
load_stats(file) ==
    IF file[1] = "absent" THEN [raised |-> FALSE, stats |-> FreshStats]
    ELSE IF file[1] \in {"corrupt", "unreadable"} THEN [raised |-> TRUE, stats |-> None]
    ELSE [raised |-> FALSE, stats |-> json_load(file[2])]

\* mutant: the streak block is written as it is initialised
save_stats_without_streak(st) ==
    FileWith(json_dump([st EXCEPT !.commit_streaks = FreshStats.commit_streaks]))

\* save_stats: the whole document replaces the file
save_stats(st) == FileWith(json_dump(st))

\* mutant: a gap recomputes longest from the streak that starts
update_commit_streak_gap_recomputes(cs, timestamp) ==
    LET current_date == date_of(strptime_timestamp(timestamp))
        has_last == Truthy(cs.last_commit_date)
        days_diff == days_between(current_date, strptime_date(cs.last_commit_date))
        cur == IF has_last
               THEN (IF days_diff = 1 THEN cs.current + 1
                     ELSE IF days_diff > 1 THEN 1
                     ELSE cs.current)
               ELSE 1
        lng == IF has_last /\ days_diff = 1 THEN Max(cs.longest, cur)
               ELSE IF has_last /\ days_diff > 1 THEN cur
               ELSE cs.longest
    IN [current |-> cur, longest |-> lng, last_commit_date |-> strftime_date(current_date)]

\* mutant: every difference but one day resets the streak (else instead of elif)
update_commit_streak_else_resets(cs, timestamp) ==
    LET current_date == date_of(strptime_timestamp(timestamp))
        has_last == Truthy(cs.last_commit_date)
        days_diff == days_between(current_date, strptime_date(cs.last_commit_date))
        cur == IF has_last /\ days_diff = 1 THEN cs.current + 1 ELSE 1
        lng == IF has_last /\ days_diff = 1 THEN Max(cs.longest, cur) ELSE cs.longest
    IN [current |-> cur, longest |-> lng, last_commit_date |-> strftime_date(current_date)]

\* mutant: the distance in days is taken without its sign
update_commit_streak_abs(cs, timestamp) ==
    LET current_date == date_of(strptime_timestamp(timestamp))
        has_last == Truthy(cs.last_commit_date)
        signed == days_between(current_date, strptime_date(cs.last_commit_date))
        days_diff == IF signed < 0 THEN 0 - signed ELSE signed
        cur == IF has_last
               THEN (IF days_diff = 1 THEN cs.current + 1
                     ELSE IF days_diff > 1 THEN 1
                     ELSE cs.current)
               ELSE 1
        lng == IF has_last /\ days_diff = 1 THEN Max(cs.longest, cur) ELSE cs.longest
    IN [current |-> cur, longest |-> lng, last_commit_date |-> strftime_date(current_date)]

\* update_commit_streak, on the commit_streaks record
update_commit_streak(cs, timestamp) ==
    LET current_date == date_of(strptime_timestamp(timestamp))
        has_last == Truthy(cs.last_commit_date)
        days_diff == days_between(current_date, strptime_date(cs.last_commit_date))
        cur == IF has_last
               THEN (IF days_diff = 1 THEN cs.current + 1
                     ELSE IF days_diff > 1 THEN 1
                     ELSE cs.current)
               ELSE 1
        lng == IF has_last /\ days_diff = 1 THEN Max(cs.longest, cur) ELSE cs.longest
    IN [current |-> cur, longest |-> lng, last_commit_date |-> strftime_date(current_date)]

\* mutant: the global total counts the first commit of a repository only
add_commit_total_per_repository(st, repo_path, file_path, commit_type, timestamp) ==
    LET repos0 == IF HasKey(st.repositories, repo_path) THEN st.repositories
                  ELSE SetItem(st.repositories, repo_path, FreshRepoStats)
        r0 == repos0[repo_path]
        files0 == IF HasKey(r0.files, file_path) THEN r0.files
                  ELSE SetItem(r0.files, file_path, FreshFileStats)
        f1 == [files0[file_path] EXCEPT !.commits = @ + 1, !.last_modified = timestamp]
        commit_hour == strptime_timestamp(timestamp).hour
        commit_day == weekday(strptime_timestamp(timestamp))
        r1 == [r0 EXCEPT !.total_commits = @ + 1,
                         !.last_commit = timestamp,
                         !.files = SetItem(files0, file_path, f1),
                         !.active_hours[commit_hour] = @ + 1,
                         !.active_days[commit_day] = @ + 1]
    IN [st EXCEPT !.repositories = SetItem(repos0, repo_path, r1),
                  !.total_commits = IF HasKey(st.repositories, repo_path) THEN @ ELSE @ + 1,
                  !.commit_streaks = update_commit_streak(@, timestamp)]

\* mutant: the commit type is counted in the repository's commit_types
add_commit_counts_types(st, repo_path, file_path, commit_type, timestamp) ==
    LET repos0 == IF HasKey(st.repositories, repo_path) THEN st.repositories
                  ELSE SetItem(st.repositories, repo_path, FreshRepoStats)
        r0 == repos0[repo_path]
        files0 == IF HasKey(r0.files, file_path) THEN r0.files
                  ELSE SetItem(r0.files, file_path, FreshFileStats)
        f1 == [files0[file_path] EXCEPT !.commits = @ + 1, !.last_modified = timestamp]
        commit_hour == strptime_timestamp(timestamp).hour
        commit_day == weekday(strptime_timestamp(timestamp))
        types1 == SetItem(r0.commit_types, commit_type,
                          IF HasKey(r0.commit_types, commit_type)
                          THEN r0.commit_types[commit_type] + 1 ELSE 1)
        r1 == [r0 EXCEPT !.total_commits = @ + 1,
                         !.last_commit = timestamp,
                         !.files = SetItem(files0, file_path, f1),
                         !.commit_types = types1,
                         !.active_hours[commit_hour] = @ + 1,
                         !.active_days[commit_day] = @ + 1]
    IN [st EXCEPT !.repositories = SetItem(repos0, repo_path, r1),
                  !.total_commits = @ + 1,
                  !.commit_streaks = update_commit_streak(@, timestamp)]

\* mutant: the files mapping of the repository is rebuilt for the file at hand
add_commit_overwrites_files(st, repo_path, file_path, commit_type, timestamp) ==
    LET repos0 == IF HasKey(st.repositories, repo_path) THEN st.repositories
                  ELSE SetItem(st.repositories, repo_path, FreshRepoStats)
        r0 == repos0[repo_path]
        files0 == SetItem(EmptyDict, file_path,
                          IF HasKey(r0.files, file_path) THEN r0.files[file_path]
                          ELSE FreshFileStats)
        f1 == [files0[file_path] EXCEPT !.commits = @ + 1, !.last_modified = timestamp]
        commit_hour == strptime_timestamp(timestamp).hour
        commit_day == weekday(strptime_timestamp(timestamp))
        r1 == [r0 EXCEPT !.total_commits = @ + 1,
                         !.last_commit = timestamp,
                         !.files = SetItem(files0, file_path, f1),
                         !.active_hours[commit_hour] = @ + 1,
                         !.active_days[commit_day] = @ + 1]
    IN [st EXCEPT !.repositories = SetItem(repos0, repo_path, r1),
                  !.total_commits = @ + 1,
                  !.commit_streaks = update_commit_streak(@, timestamp)]

\* add_commit up to (not including) save_stats: the in-memory statistics
add_commit(st, repo_path, file_path, commit_type, timestamp) ==
    LET repos0 == IF HasKey(st.repositories, repo_path) THEN st.repositories
                  ELSE SetItem(st.repositories, repo_path, FreshRepoStats)
        r0 == repos0[repo_path]
        files0 == IF HasKey(r0.files, file_path) THEN r0.files
                  ELSE SetItem(r0.files, file_path, FreshFileStats)
        f1 == [files0[file_path] EXCEPT !.commits = @ + 1, !.last_modified = timestamp]
        commit_hour == strptime_timestamp(timestamp).hour
        commit_day == weekday(strptime_timestamp(timestamp))
        r1 == [r0 EXCEPT !.total_commits = @ + 1,
                         !.last_commit = timestamp,
                         !.files = SetItem(files0, file_path, f1),
                         !.active_hours[commit_hour] = @ + 1,
                         !.active_days[commit_day] = @ + 1]
    IN [st EXCEPT !.repositories = SetItem(repos0, repo_path, r1),
                  !.total_commits = @ + 1,
                  !.commit_streaks = update_commit_streak(@, timestamp)]

(* --------------------- external collaborators ------------------------- *)
\* mutant: every candidate is taken as accessible
check_access_always(verdict, repo_path) == TRUE

\* check_access: the verdict of `git push --dry-run`, no side effect
check_access(verdict, repo_path) == verdict[repo_path]

\* git_commit on a repository whose local / remote history hold `local` /
\* `remote` commits.  outcome: "early" (no path, no file, git add or git
\* commit fails), "push" (committed locally, git push fails), "ok".
GitCommitOutcomes == {"early", "push", "ok"}
git_commit(outcome, local, remote) ==
    IF outcome = "early" THEN [ok |-> FALSE, local |-> local, remote |-> remote]
    ELSE IF outcome = "push" THEN [ok |-> FALSE, local |-> local + 1, remote |-> remote]
    ELSE [ok |-> TRUE, local |-> local + 1, remote |-> local + 1]

\* reset_changes: git rev-parse HEAD~<changes_made>, git reset --hard,
\* git push --force.  outcome: "early" (rev-parse or reset fails), "push"
\* (reset done locally, the forced push fails), "ok".  rev-parse also fails
\* when the history has no HEAD~<changes_made>.
ResetOutcomes == {"early", "push", "ok"}
reset_changes(outcome, made, local, remote) ==
    LET n == made      \* "HEAD~" + str(changes_made), the module-level counter
    IN IF outcome = "early" \/ n >= local
       THEN [ok |-> FALSE, local |-> local, remote |-> remote]
       ELSE IF outcome = "push"
       THEN [ok |-> FALSE, local |-> local - n, remote |-> remote]
       ELSE [ok |-> TRUE, local |-> local - n, remote |-> local - n]

(* ------------------------------ state --------------------------------- *)
VARIABLES
    pc,                 \* position in process_repositories
    stats,              \* RepositoryStatistics.stats of the instance in use
    stats_file,         \* content of repository_stats.json
    total_commits,      \* module-level total_commits
    changes_made,       \* module-level changes_made
    processed_repos,    \* list of repositories, one entry per successful commit
    available_repos,
    selected_repos,
    use_commit_control, \* the budget prompt was answered yes
    total_commit_input,
    remaining_commits,
    i,                  \* index of the slot in selected_repos (from 0)
    commits_this_repo,  \* commits_this_repo / commit_count_local
    j,                  \* commit attempts made in the current slot
    reset_pending,      \* set(processed_repos) not yet iterated over
    local_history,      \* per repository: commits on the local branch
    remote_history,     \* per repository: commits on the remote branch
    calls,              \* record of the collaborator invocations of the batch
    recorded,           \* dates given to add_commit since the store was empty
    call_log,           \* the add_commit calls made: arguments, instance, result
    other_stats         \* RepositoryStatistics.stats of a second instance

vars == <<pc, stats, stats_file, total_commits, changes_made, processed_repos,
          available_repos, selected_repos, use_commit_control, total_commit_input,
          remaining_commits, i, commits_this_repo, j, reset_pending, local_history, remote_history, calls, recorded,
          call_log, other_stats>>

sched_vars == <<pc, total_commits, changes_made, processed_repos,
                available_repos, selected_repos, use_commit_control,
                total_commit_input, remaining_commits, i, commits_this_repo, j,
                reset_pending, local_history,
                remote_history, calls>>

\* nothing has been called yet
NoCalls ==
    [file_at_start |-> None,                 \* repository_stats.json on entry
     accessible |-> {},                      \* repositories check_access passed
     alloc |-> [r \in Repos |-> 0],          \* commits_this_repo given to r
     attempts |-> [r \in Repos |-> 0],       \* git_commit invocations on r
     successes |-> [r \in Repos |-> 0],      \* git_commit successes on r
     failed |-> {},                          \* repositories whose git_commit failed
     after_failure |-> {},                   \* repositories attempted again after a failure
     keep |-> "unasked",                     \* answer at the keep prompt
     resets |-> [r \in Repos |-> 0],         \* reset_changes invocations on r
     reset_ok |-> {},                        \* repositories reset_changes returned True for
     reset_error_logged |-> {}]              \* repositories logged at the error branch

\* a timestamp and a document a previous session left behind
SampleTimestamp == <<2024, 2, 28, 9>>
SampleDoc == json_dump(add_commit(FreshStats, "SQL-50-LeetCode", "a.py", "fix", SampleTimestamp))

Init ==
    /\ pc = "start"
    /\ stats = None
    /\ stats_file \in {FileAbsent, FileCorrupt, FileUnreadable, FileWith(SampleDoc)}
    /\ total_commits = 0
    /\ changes_made = 0
    /\ processed_repos = <<>>
    /\ available_repos = <<>>
    /\ selected_repos = <<>>
    /\ use_commit_control = FALSE
    /\ total_commit_input = 0
    /\ remaining_commits = 0
    /\ reset_pending = {}
    /\ i = 0
    /\ commits_this_repo = 0
    /\ j = 0
    /\ local_history = [r \in Repos |-> BaseHist]
    /\ remote_history = [r \in Repos |-> BaseHist]
    /\ calls = [NoCalls EXCEPT !.file_at_start = stats_file]
    /\ recorded = <<>>
    /\ call_log = <<>>
    /\ other_stats = None

(* ----------------------- process_repositories ------------------------- *)
\* mutant: the empty list of available repositories is not checked
after_access_check_missing(avail) == "prompt"

\* `if not available_repos: return`
after_access_check(avail) == IF avail = <<>> THEN "returned" ELSE "prompt"

\* construct RepositoryStatistics, reset the counters, filter by check_access
Start ==
    /\ pc = "start"
    /\ LET ld == load_stats(stats_file) IN
       IF ld.raised
       THEN /\ pc' = "raised"
            /\ UNCHANGED <<stats, changes_made, processed_repos, available_repos, calls>>
       ELSE \E verdict \in [Repos -> BOOLEAN] :
            LET avail == FilterSeq(repositories, [r \in Repos |-> check_access(verdict, r)])
            IN /\ stats' = ld.stats
               /\ changes_made' = 0
               /\ processed_repos' = <<>>
               /\ available_repos' = avail
               /\ pc' = after_access_check(avail)
               /\ calls' = [calls EXCEPT !.accessible = {r \in Repos : verdict[r]}]
    /\ UNCHANGED <<stats_file, total_commits, selected_repos, use_commit_control,
                   total_commit_input, remaining_commits, i, commits_this_repo, j,
                   reset_pending, local_history, remote_history, recorded, call_log, other_stats>>

\* the budget prompt, then random.randint / random.sample in either branch
Prompt ==
    /\ pc = "prompt"
    /\ \E answer \in BOOLEAN, num_repos \in 1..Len(available_repos) :
       \E sel \in Sample(available_repos, num_repos) :
          /\ use_commit_control' = answer
          /\ selected_repos' = sel
          /\ IF answer
             THEN \E total \in (0 - 1)..MaxTotal :
                     /\ total_commit_input' = total
                     /\ remaining_commits' = total
             ELSE UNCHANGED <<total_commit_input, remaining_commits>>
    /\ i' = 0
    /\ pc' = "slot"
    /\ UNCHANGED <<stats, stats_file, total_commits, changes_made, processed_repos,
                   available_repos, commits_this_repo, j, reset_pending,
                   local_history, remote_history, calls, recorded, call_log, other_stats>>

\* mutant: nothing is kept back for the slots that follow
max_commits_unreserved(remaining, n, slot) == remaining

\* mutant: the slots that follow are added on instead of kept back
max_commits_adds_reserve(remaining, n, slot) ==
    Min(remaining + (n - slot - 1), remaining + 1)

\* mutant: the upper bound is one too large
max_commits_off_by_one(remaining, n, slot) ==
    Min(remaining - (n - slot - 1), remaining - 1) + 1

\* the upper bound of random.randint for a slot that is not the last
max_commits(remaining, n, slot) == Min(remaining - (n - slot - 1), remaining - 1)

\* enter the commit loop of the slot with `count` iterations (none if count <= 0)
EnterSlot(count) ==
    /\ commits_this_repo' = count
    /\ j' = 0
    /\ calls' = [calls EXCEPT !.alloc[selected_repos[i + 1]] = count]
    /\ IF count <= 0
       THEN /\ i' = i + 1
            /\ pc' = "slot"
       ELSE /\ i' = i
            /\ pc' = "commit"

\* one iteration head of the budget loop
BudgetSlot ==
    /\ pc = "slot"
    /\ use_commit_control
    /\ i < Len(selected_repos)
    /\ IF i = Len(selected_repos) - 1
       THEN /\ EnterSlot(remaining_commits)
            /\ UNCHANGED remaining_commits
       ELSE LET mx == max_commits(remaining_commits, Len(selected_repos), i) IN
            IF mx <= 0
            THEN /\ i' = i + 1
                 /\ UNCHANGED <<pc, commits_this_repo, j, calls, remaining_commits>>
            ELSE \E c \in 1..mx :
                    /\ remaining_commits' = remaining_commits - c
                    /\ EnterSlot(c)
    /\ UNCHANGED <<stats, stats_file, total_commits, changes_made, processed_repos,
                   available_repos, selected_repos, use_commit_control,
                   total_commit_input, reset_pending, local_history, remote_history,
                   recorded, call_log, other_stats>>

\* one iteration head of the random-mode loop
RandomSlot ==
    /\ pc = "slot"
    /\ ~use_commit_control
    /\ i < Len(selected_repos)
    /\ \E draw \in 0..MaxExpo : EnterSlot(calculate_commits(draw))
    /\ UNCHANGED <<stats, stats_file, total_commits, changes_made, processed_repos,
                   available_repos, selected_repos, use_commit_control,
                   total_commit_input, remaining_commits, reset_pending,
                   local_history, remote_history, recorded, call_log, other_stats>>

\* what the loop body does with the store after a successful git_commit:
\* changes_made and processed_repos are updated, `stats` is never used
record_success(st, file, repo_path) == [stats |-> st, file |-> file]

\* mutant: a failed attempt leaves the outer loop as well
next_position_abort(ok, slot, done_in_slot, count, n) ==
    IF ok /\ done_in_slot + 1 < count
    THEN [i |-> slot, pc |-> "commit"]
    ELSE IF ok THEN [i |-> slot + 1, pc |-> "slot"]
    ELSE [i |-> n, pc |-> "slot"]

\* where the inner loop goes after an attempt: the next iteration, or (on
\* `break` and on exhaustion of range(commits_this_repo)) the next slot
next_position(ok, slot, done_in_slot, count, n) ==
    IF ok /\ done_in_slot + 1 < count
    THEN [i |-> slot, pc |-> "commit"]
    ELSE [i |-> slot + 1, pc |-> "slot"]

\* one iteration of the inner commit loop (the same body in both modes)
CommitAttempt ==
    /\ pc = "commit"
    /\ \E outcome \in GitCommitOutcomes :
       LET repo_path == selected_repos[i + 1]
           res == git_commit(outcome, local_history[repo_path], remote_history[repo_path])
           rec == record_success(stats, stats_file, repo_path)
           nxt == next_position(res.ok, i, j, commits_this_repo, Len(selected_repos))
       IN /\ local_history' = [local_history EXCEPT ![repo_path] = res.local]
          /\ remote_history' = [remote_history EXCEPT ![repo_path] = res.remote]
          /\ calls' = [calls EXCEPT
                 !.attempts[repo_path] = @ + 1,
                 !.successes[repo_path] = IF res.ok THEN @ + 1 ELSE @,
                 !.failed = IF res.ok THEN @ ELSE @ \cup {repo_path},
                 !.after_failure = IF repo_path \in calls.failed
                                   THEN @ \cup {repo_path} ELSE @]
          /\ IF res.ok
             THEN /\ changes_made' = changes_made + 1
                  /\ processed_repos' = Append(processed_repos, repo_path)
                  /\ stats' = rec.stats
                  /\ stats_file' = rec.file
                  /\ j' = j + 1
             ELSE UNCHANGED <<changes_made, processed_repos, stats, stats_file, j>>
          /\ i' = nxt.i
          /\ pc' = nxt.pc
    /\ UNCHANGED <<total_commits, available_repos, selected_repos, use_commit_control,
                   total_commit_input, remaining_commits, commits_this_repo,
                   reset_pending, recorded, call_log, other_stats>>

\* mutant: every selected repository is reset
rollback_targets_selected(processed) == Range(selected_repos)

\* `for repo_path in set(processed_repos)`: the repositories to reset
rollback_targets(processed) == Range(processed)

\* after the loops: the keep prompt when something was committed
Finish ==
    /\ pc = "slot"
    /\ i = Len(selected_repos)
    /\ IF changes_made > 0
       THEN \E keep_changes \in BOOLEAN :
               /\ calls' = [calls EXCEPT !.keep = IF keep_changes THEN "yes" ELSE "no"]
               /\ IF keep_changes
                  THEN /\ total_commits' = changes_made
                       /\ pc' = "done"
                       /\ UNCHANGED reset_pending
                  ELSE /\ reset_pending' = rollback_targets(processed_repos)
                       /\ pc' = "rollback"
                       /\ UNCHANGED total_commits
       ELSE /\ pc' = "done"
            /\ UNCHANGED <<calls, total_commits, reset_pending>>
    /\ UNCHANGED <<stats, stats_file, changes_made, processed_repos, available_repos,
                   selected_repos, use_commit_control, total_commit_input,
                   remaining_commits, i, commits_this_repo, j, local_history,
                   remote_history, recorded, call_log, other_stats>>

\* mutant: the rollback loop stops at the first failure
after_reset_stop(ok, rest) == IF rest = {} \/ ~ok THEN "done" ELSE "rollback"

\* the rollback loop has no break: it ends when the set is exhausted
after_reset(ok, rest) == IF rest = {} THEN "done" ELSE "rollback"

\* one iteration of `for repo_path in set(processed_repos)` (a set is iterated
\* in no particular order); after the last one, total_commits = 0
Rollback ==
    /\ pc = "rollback"
    /\ \E repo_path \in reset_pending, outcome \in ResetOutcomes :
       LET res == reset_changes(outcome, changes_made,
                                local_history[repo_path], remote_history[repo_path])
       IN /\ local_history' = [local_history EXCEPT ![repo_path] = res.local]
          /\ remote_history' = [remote_history EXCEPT ![repo_path] = res.remote]
          /\ calls' = [calls EXCEPT
                 !.resets[repo_path] = @ + 1,
                 !.reset_ok = IF res.ok THEN @ \cup {repo_path} ELSE @,
                 !.reset_error_logged = IF res.ok THEN @ ELSE @ \cup {repo_path}]
          /\ reset_pending' = reset_pending \ {repo_path}
          /\ pc' = after_reset(res.ok, reset_pending \ {repo_path})
          /\ total_commits' = IF pc' = "done" THEN 0 ELSE total_commits
    /\ UNCHANGED <<stats, stats_file, changes_made, processed_repos, available_repos,
                   selected_repos, use_commit_control, total_commit_input,
                   remaining_commits, i, commits_this_repo, j, recorded, call_log, other_stats>>

Next ==
    \/ Start
    \/ Prompt
    \/ BudgetSlot
    \/ RandomSlot
    \/ CommitAttempt
    \/ Finish
    \/ Rollback

Spec == Init /\ [][Next]_vars

(* ------------------- the statistics store on its own ------------------ *)
\* the repository paths of main()
RepoPaths == {"SQL-50-LeetCode", "pythhon"}
\* two files with supported extensions
FilePaths == {"a.py", "b.sql"}
\* the change types process_repositories draws from
ChangeTypes == {"feature", "fix", "refactor", "docs", "test"}

\* the calendar days 2024-02-27 .. (NumDays days), across 29 February
FirstDate == [year |-> 2024, month |-> 2, day |-> 27]
Dates ==
    {s \in {<<2024, m, d>> : m \in {2, 3}, d \in 1..31} :
        /\ s[3] <= DaysInMonth(s[1], s[2])
        /\ toordinal(strptime_date(s)) >= toordinal(FirstDate)
        /\ toordinal(strptime_date(s)) < toordinal(FirstDate) + NumDays}
Hours == {9}
Timestamps == {<<s[1], s[2], s[3], h>> : s \in Dates, h \in Hours}

\* the scheduler's variables while the store is exercised on its own
IdleScheduler ==
    /\ total_commits = 0
    /\ changes_made = 0
    /\ processed_repos = <<>>
    /\ available_repos = <<>>
    /\ selected_repos = <<>>
    /\ use_commit_control = FALSE
    /\ total_commit_input = 0
    /\ remaining_commits = 0
    /\ reset_pending = {}
    /\ i = 0
    /\ commits_this_repo = 0
    /\ j = 0
    /\ local_history = [r \in Repos |-> BaseHist]
    /\ remote_history = [r \in Repos |-> BaseHist]
    /\ calls = [NoCalls EXCEPT !.file_at_start = FileAbsent]

InitStore ==
    /\ pc = "store"
    /\ stats_file = FileAbsent
    /\ stats = load_stats(FileAbsent).stats
    /\ recorded = <<>>
    /\ call_log = <<>>
    /\ other_stats = None
    /\ IdleScheduler

\* how save_stats can end: written, open(..., 'w') raises (the file keeps
\* its content), or the write raises after open truncated the file
SaveOutcomes == {"ok", "open", "write"}

\* mutant: the total already in the file is counted on, not replaced
written_document_merges(st, file) ==
    IF file[1] = "doc"
    THEN save_stats([st EXCEPT !.total_commits = Max(@, file[2].total_commits + 1)])
    ELSE save_stats(st)

\* the file after save_stats: open(..., 'w') discards the previous content
written_document(st, file) == save_stats(st)
file_after_save(outcome, st, file) ==
    IF outcome = "ok" THEN written_document(st, file)
    ELSE IF outcome = "open" THEN file
    ELSE FileCorrupt

\* mutant: a failed save puts self.stats back as it was before the call
stats_after_save_rolls_back(outcome, before, updated) ==
    IF outcome = "ok" THEN updated ELSE before

\* self.stats when add_commit is left: there is no try / except around
\* save_stats, the increments made before it stay
stats_after_save(outcome, before, updated) == updated

\* the entry of call_log for a call
LogEntry(repo_path, file_path, timestamp, by, outcome) ==
    [repo |-> repo_path, file |-> file_path, timestamp |-> timestamp, by |-> by,
     result |-> IF outcome = "ok" THEN "ok" ELSE "io_error"]

\* the commit_type arguments tried on the store: two of ChangeTypes
CommitTypes == {"feature", "fix"}

\* add_commit called on the instance holding `mine`, save_stats ending `outcome`
AddCommitOn(mine, by, outcome) ==
    \E repo_path \in RepoPaths, file_path \in FilePaths,
       commit_type \in CommitTypes, timestamp \in Timestamps :
       LET updated == add_commit(mine, repo_path, file_path, commit_type, timestamp)
           left == stats_after_save(outcome, mine, updated)
       IN /\ IF by = "first"
             THEN stats' = left /\ UNCHANGED other_stats
             ELSE other_stats' = left /\ UNCHANGED stats
          /\ stats_file' = file_after_save(outcome, updated, stats_file)
          /\ recorded' = Append(recorded, <<timestamp[1], timestamp[2], timestamp[3]>>)
          /\ call_log' = Append(call_log,
                 LogEntry(repo_path, file_path, timestamp, by, outcome))

\* RepositoryStatistics.add_commit, save_stats included
AddCommit ==
    /\ pc = "store"
    /\ Len(recorded) < MaxCommits
    /\ AddCommitOn(stats, "first", "ok")
    /\ UNCHANGED sched_vars

\* RepositoryStatistics(): a new instance reads the file
NewInstance ==
    /\ pc = "store"
    /\ ~load_stats(stats_file).raised
    /\ stats' = load_stats(stats_file).stats
    /\ UNCHANGED <<stats_file, recorded, call_log, other_stats>>
    /\ UNCHANGED sched_vars

NextStore ==
    \/ AddCommit
    \/ NewInstance

SpecStore == InitStore /\ [][NextStore]_vars

(* ------------------ the store when save_stats can fail ---------------- *)
InitStoreIO ==
    /\ pc = "store_io"
    /\ stats_file = FileAbsent
    /\ stats = load_stats(FileAbsent).stats
    /\ recorded = <<>>
    /\ call_log = <<>>
    /\ other_stats = None
    /\ IdleScheduler

\* add_commit with any outcome of save_stats
AddCommitIO ==
    /\ pc = "store_io"
    /\ Len(call_log) < MaxIOCommits
    /\ \E outcome \in SaveOutcomes : AddCommitOn(stats, "first", outcome)
    /\ UNCHANGED sched_vars

\* RepositoryStatistics(): a new instance replaces the one in use
NewInstanceIO ==
    /\ pc = "store_io"
    /\ ~load_stats(stats_file).raised
    /\ stats' = load_stats(stats_file).stats
    /\ UNCHANGED <<stats_file, recorded, call_log, other_stats>>
    /\ UNCHANGED sched_vars

NextStoreIO ==
    \/ AddCommitIO
    \/ NewInstanceIO

SpecStoreIO == InitStoreIO /\ [][NextStoreIO]_vars

(* ------------- two instances on the same statistics file -------------- *)
\* two RepositoryStatistics() constructed on the same file
InitShared ==
    /\ pc = "shared"
    /\ stats_file = FileAbsent
    /\ stats = load_stats(FileAbsent).stats
    /\ other_stats = load_stats(FileAbsent).stats
    /\ recorded = <<>>
    /\ call_log = <<>>
    /\ IdleScheduler

\* add_commit on the first instance
AddCommitFirst ==
    /\ pc = "shared"
    /\ Len(call_log) < MaxIOCommits
    /\ AddCommitOn(stats, "first", "ok")
    /\ UNCHANGED sched_vars

\* add_commit on the second instance
AddCommitSecond ==
    /\ pc = "shared"
    /\ Len(call_log) < MaxIOCommits
    /\ AddCommitOn(other_stats, "second", "ok")
    /\ UNCHANGED sched_vars

\* either instance is constructed again from the file
Reload ==
    /\ pc = "shared"
    /\ \/ stats' = load_stats(stats_file).stats /\ UNCHANGED other_stats
       \/ other_stats' = load_stats(stats_file).stats /\ UNCHANGED stats
    /\ UNCHANGED <<stats_file, recorded, call_log>>
    /\ UNCHANGED sched_vars

NextShared ==
    \/ AddCommitFirst
    \/ AddCommitSecond
    \/ Reload

SpecShared == InitShared /\ [][NextShared]_vars

(* ----------------------- calculate_commits alone ---------------------- *)
InitCount ==
    /\ pc = "count"
    /\ stats = None
    /\ stats_file = FileAbsent
    /\ recorded = <<>>
    /\ call_log = <<>>
    /\ other_stats = None
    /\ IdleScheduler

\* commits_this_repo = calculate_commits(), j holding the floored sample
CalculateCommits ==
    /\ pc \in {"count", "counted"}
    /\ \E draw \in 0..MaxSample :
          /\ j' = draw
          /\ commits_this_repo' = calculate_commits(draw)
    /\ pc' = "counted"
    /\ UNCHANGED <<stats, stats_file, total_commits, changes_made, processed_repos,
                   available_repos, selected_repos, use_commit_control,
                   total_commit_input, remaining_commits, i, reset_pending,
                   local_history, remote_history, calls, recorded, call_log,
                   other_stats>>

NextCount == CalculateCommits

SpecCount == InitCount /\ [][NextCount]_vars

(* ------------------- the streak over commit dates --------------------- *)
\* the repository and file every commit of this part is recorded for
StreakRepo == "SQL-50-LeetCode"
StreakFile == "a.py"

InitStreak ==
    /\ pc = "streak"
    /\ stats_file = FileAbsent
    /\ stats = load_stats(FileAbsent).stats
    /\ recorded = <<>>
    /\ call_log = <<>>
    /\ other_stats = None
    /\ IdleScheduler

\* add_commit with a timestamp on any of Dates, save_stats included
AddCommitDated ==
    /\ pc = "streak"
    /\ Len(recorded) < MaxStreakCommits
    /\ \E timestamp \in Timestamps :
          LET updated == add_commit(stats, StreakRepo, StreakFile, "fix", timestamp)
          IN /\ stats' = stats_after_save("ok", stats, updated)
             /\ stats_file' = file_after_save("ok", updated, stats_file)
             /\ recorded' = Append(recorded, <<timestamp[1], timestamp[2], timestamp[3]>>)
             /\ call_log' = Append(call_log,
                    LogEntry(StreakRepo, StreakFile, timestamp, "first", "ok"))
    /\ UNCHANGED other_stats
    /\ UNCHANGED sched_vars

NextStreak == AddCommitDated

SpecStreak == InitStreak /\ [][NextStreak]_vars

(* ============================== claims ================================ *)
\* the loops of process_repositories are over
BatchOver == pc \in {"rollback", "done"}
TotalAttempts == SumOver(calls.attempts, Repos)
TotalSuccesses == SumOver(calls.successes, Repos)
TotalAlloc == SumOver(calls.alloc, Repos)
Selected == Range(selected_repos)
\* the dates in `recorded` are consecutive calendar days, in increasing order
ConsecutiveDays(ds) ==
    \A n \in 1..(Len(ds) - 1) :
        toordinal(strptime_date(ds[n + 1])) = toordinal(strptime_date(ds[n])) + 1

\* C1: from a freshly initialised store, after every add_commit the streak
\* satisfies commit_streaks.current <= commit_streaks.longest.
C1_CurrentAtMostLongest ==
    pc = "store" => stats.commit_streaks.current <= stats.commit_streaks.longest

\* C2: at the end of a batch the store's global total_commits has grown by
\* exactly the number of successful git_commit calls of the batch.
C2_SuccessesRecorded ==
    BatchOver =>
        stats.total_commits =
            load_stats(calls.file_at_start).stats.total_commits + TotalSuccesses

\* C3: when the batch is discarded, a repository whose rollback succeeded
\* has the history it had before the batch, locally and on the remote
\* (stated for the batches in which every git_commit call succeeded, so that
\* each repository holds exactly its successful commits on top of the old
\* history).
C3_RollbackRestoresHistory ==
    calls.failed = {} =>
        \A r \in calls.reset_ok :
            local_history[r] = BaseHist /\ remote_history[r] = BaseHist

\* C10: from an empty store, after commits on k >= 1 consecutive calendar
\* days (one per day, increasing), current = k and longest = k.
C10_ConsecutiveDaysCount ==
    (/\ pc = "store"
     /\ Len(recorded) >= 1
     /\ ConsecutiveDays(recorded))
    => /\ stats.commit_streaks.current = Len(recorded)
       /\ stats.commit_streaks.longest = Len(recorded)

\* C4 (as claimed): in budget mode with a budget smaller than the selected
\* subset, the batch aborts before any git_commit call and nothing is mutated.
C4_SmallBudgetAborts ==
    (/\ use_commit_control
     /\ pc \notin {"start", "prompt", "raised", "returned"}
     /\ total_commit_input < Len(selected_repos))
    => /\ TotalAttempts = 0
       /\ \A r \in Repos : local_history[r] = BaseHist /\ remote_history[r] = BaseHist

\* C4 (amended): in budget mode with a budget smaller than the selected
\* subset the batch is not aborted: slots whose upper bound is <= 0 are
\* skipped, the last selected repository is given the whole remaining budget
\* and, when the budget is >= 1, receives a git_commit call; there are never
\* more git_commit calls than the budget, and none only when the budget <= 0.
C4_SmallBudgetSkipsSlots ==
    (/\ use_commit_control
     /\ BatchOver
     /\ total_commit_input < Len(selected_repos))
    => LET last == selected_repos[Len(selected_repos)] IN
       /\ TotalAttempts <= Max(total_commit_input, 0)
       /\ calls.alloc[last] = remaining_commits
       /\ total_commit_input >= 1 => calls.attempts[last] >= 1
       /\ total_commit_input <= 0 => TotalAttempts = 0
       /\ \A r \in Selected : calls.alloc[r] = 0 => calls.attempts[r] = 0

C4_Witness ==
    /\ use_commit_control
    /\ pc = "done"
    /\ total_commit_input >= 1
    /\ total_commit_input < Len(selected_repos)
    /\ calls.attempts[selected_repos[Len(selected_repos)]] >= 1
    /\ \E r \in Selected : calls.alloc[r] = 0

\* C5: in budget mode with n selected repositories and n <= total, every
\* selected repository is allocated at least 1, the allocations sum to total,
\* and when every git_commit call succeeds exactly `total` calls are made,
\* each repository receiving its allocation.
C5_BudgetSplit ==
    (/\ use_commit_control
     /\ BatchOver
     /\ Len(selected_repos) <= total_commit_input)
    => /\ \A r \in Selected : calls.alloc[r] >= 1
       /\ \A r \in Repos \ Selected : calls.alloc[r] = 0
       /\ TotalAlloc = total_commit_input
       /\ calls.failed = {} =>
             /\ TotalAttempts = total_commit_input
             /\ \A r \in Selected : calls.attempts[r] = calls.alloc[r]

C5_Witness ==
    /\ use_commit_control
    /\ pc = "done"
    /\ Len(selected_repos) = NumRepos
    /\ total_commit_input > Len(selected_repos)
    /\ calls.failed = {}
    /\ TotalAttempts = total_commit_input
    /\ \E r \in Selected : calls.attempts[r] >= 2

\* C6: a failed git_commit ends the attempts on that repository (it is the
\* last call on it, there is no retry), and the repositories after it keep
\* their allocation and receive their attempts: in random mode every selected
\* repository is attempted, in budget mode the allocations still sum to the
\* budget, and every repository without a failure receives all it was allocated.
C6_FailureIsLocal ==
    /\ calls.after_failure = {}
    /\ \A r \in calls.failed : calls.attempts[r] = calls.successes[r] + 1
    /\ BatchOver =>
          /\ \A r \in Selected \ calls.failed :
                calls.attempts[r] = Max(calls.alloc[r], 0)
          /\ \A r \in calls.failed : calls.attempts[r] <= calls.alloc[r]
          /\ ~use_commit_control => \A r \in Selected : calls.attempts[r] >= 1
          /\ (use_commit_control /\ total_commit_input >= 0) =>
                TotalAlloc = total_commit_input
          /\ (use_commit_control /\ total_commit_input >= Len(selected_repos)) =>
                \A r \in Selected : calls.attempts[r] >= 1

\* a failure in the first slot, and the second slot fully attempted
C6_Witness ==
    /\ pc = "done"
    /\ Len(selected_repos) >= 2
    /\ selected_repos[1] \in calls.failed
    /\ calls.attempts[selected_repos[1]] < calls.alloc[selected_repos[1]]
    /\ calls.attempts[selected_repos[2]] = calls.alloc[selected_repos[2]]
    /\ calls.alloc[selected_repos[2]] >= 2

\* C7: if every candidate fails check_access the batch returns with no
\* work: no git_commit call, no commit counted, no keep prompt, no
\* reset_changes call, no history touched, and the statistics file and the
\* loaded statistics are as they were.
C7_NoAccessNoWork ==
    (pc \notin {"start", "raised"} /\ calls.accessible = {})
    => /\ pc = "returned"
       /\ TotalAttempts = 0
       /\ changes_made = 0
       /\ calls.keep = "unasked"
       /\ \A r \in Repos : calls.resets[r] = 0
       /\ \A r \in Repos : local_history[r] = BaseHist /\ remote_history[r] = BaseHist
       /\ stats_file = calls.file_at_start
       /\ stats = load_stats(calls.file_at_start).stats

C7_Witness ==
    /\ pc = "returned"
    /\ calls.accessible = {}
    /\ stats_file = FileWith(SampleDoc)

\* C8: reset_changes is called at most once per repository and only after a
\* discard; after a discarded batch it has been called exactly once on every
\* repository with a successful commit and never on one without; after a
\* kept batch it has not been called.
C8_OneResetPerRepository ==
    /\ \A r \in Repos :
          /\ calls.resets[r] <= 1
          /\ calls.resets[r] = 1 => (calls.keep = "no" /\ calls.successes[r] >= 1)
    /\ pc = "done" =>
          \A r \in Repos :
             calls.resets[r] =
                IF calls.keep = "no" /\ calls.successes[r] >= 1 THEN 1 ELSE 0

\* a discarded batch of 4 commits over 2 repositories, each reset once
C8_Witness ==
    /\ pc = "done"
    /\ calls.keep = "no"
    /\ TotalSuccesses = 4
    /\ Cardinality({r \in Repos : calls.successes[r] >= 1}) = 2
    /\ \A r \in Repos : calls.resets[r] = IF calls.successes[r] >= 1 THEN 1 ELSE 0
    /\ \E r \in Repos : calls.successes[r] >= 2

\* C9: after a discard, every repository of the rollback set has had its
\* reset_changes call whatever the others returned, and every repository
\* whose reset_changes returned False is in the error log, once.
C9_RollbackFailureIsLocal ==
    /\ \A r \in Repos :
          (calls.resets[r] >= 1 /\ r \notin calls.reset_ok) <=>
              r \in calls.reset_error_logged
    /\ (pc = "done" /\ calls.keep = "no") =>
          \A r \in Range(processed_repos) : calls.resets[r] = 1

\* one rollback failed, another repository was still reset successfully
C9_Witness ==
    /\ pc = "done"
    /\ calls.keep = "no"
    /\ calls.reset_error_logged # {}
    /\ calls.reset_ok # {}
    /\ \A r \in Range(processed_repos) : calls.resets[r] = 1

(* ----------------------------- streak --------------------------------- *)
\* this step is an add_commit call on the store
IsAddCommitStep == pc = "store" /\ Len(recorded') = Len(recorded) + 1
\* the date of the commit recorded by this step
NewDate == recorded'[Len(recorded')]
\* the store is in state active-streak
ActiveStreak == stats.commit_streaks.last_commit_date # None
\* days from the store's last_commit_date to the date recorded by this step
StepDaysDiff ==
    toordinal(strptime_date(NewDate))
        - toordinal(strptime_date(stats.commit_streaks.last_commit_date))
\* days from the n-th recorded date to the next one
Gap(n) == toordinal(strptime_date(recorded[n + 1])) - toordinal(strptime_date(recorded[n]))

\* C11: from an empty store, after two commits whose dates are more than one
\* calendar day apart (the second later), current = 1 and longest = 1.
C11_GapGivesOneOne ==
    (pc = "store" /\ Len(recorded) = 2 /\ Gap(1) > 1)
    => /\ stats.commit_streaks.current = 1
       /\ stats.commit_streaks.longest = 1

\* C12: in state active-streak, a commit dated on last_commit_date leaves
\* current and longest as they are and last_commit_date on that date, however
\* often it is repeated.
C12_SameDayIdempotent ==
    [][(IsAddCommitStep /\ ActiveStreak /\ StepDaysDiff = 0)
       => /\ stats'.commit_streaks.current = stats.commit_streaks.current
          /\ stats'.commit_streaks.longest = stats.commit_streaks.longest
          /\ stats'.commit_streaks.last_commit_date = NewDate
          /\ stats'.commit_streaks.last_commit_date
                = stats.commit_streaks.last_commit_date]_vars

\* a streak of 2 followed by a second commit on its last day
C12_Witness ==
    /\ pc = "store"
    /\ Len(recorded) = 3
    /\ Gap(1) = 1
    /\ Gap(2) = 0
    /\ stats.commit_streaks.current = 2
    /\ stats.commit_streaks.longest = 2

\* C20: in state active-streak, a commit dated before last_commit_date
\* leaves current and longest as they are, like a same-day commit.
C20_BackdatedLeavesStreak ==
    [][(IsAddCommitStep /\ ActiveStreak /\ StepDaysDiff < 0)
       => /\ stats'.commit_streaks.current = stats.commit_streaks.current
          /\ stats'.commit_streaks.longest = stats.commit_streaks.longest]_vars

\* a streak of 2 followed by a commit dated one day back
C20_Witness ==
    /\ pc = "store"
    /\ Len(recorded) = 3
    /\ Gap(1) = 1
    /\ Gap(2) < 0
    /\ stats.commit_streaks.current = 2
    /\ stats.commit_streaks.longest = 2

(* --------------------------- recordCommit ----------------------------- *)
\* this step is an add_commit call, and the call it makes
AddCommitStep == Len(call_log') = Len(call_log) + 1
ThisCall == call_log'[Len(call_log')]
\* the counts of a statistics structure, 0 where the entry is missing
RepoTotal(st, r) ==
    IF HasKey(st.repositories, r) THEN st.repositories[r].total_commits ELSE 0
FilesOf(st, r) ==
    IF HasKey(st.repositories, r) THEN DOMAIN st.repositories[r].files ELSE {}
FileCommits(st, r, f) ==
    IF f \in FilesOf(st, r) THEN st.repositories[r].files[f].commits ELSE 0
\* the number of add_commit calls made for repository r
CallsTo(r) == Cardinality({n \in 1..Len(call_log) : call_log[n].repo = r})

\* the effect of one add_commit(r, f, ...) on the repository and file entries
CumulativeStep(before, after, r, f) ==
    /\ DOMAIN after.repositories = DOMAIN before.repositories \cup {r}
    /\ RepoTotal(after, r) = RepoTotal(before, r) + 1
    /\ FilesOf(after, r) = FilesOf(before, r) \cup {f}
    /\ FileCommits(after, r, f) = FileCommits(before, r, f) + 1
    /\ \A r2 \in DOMAIN before.repositories \ {r} :
          after.repositories[r2] = before.repositories[r2]
    /\ \A f2 \in FilesOf(before, r) \ {f} :
          after.repositories[r].files[f2] = before.repositories[r].files[f2]

\* C13: add_commit(r, f, ...) raises r.total_commits and r.files[f].commits
\* by exactly 1 (from 0 where the entry was missing) and leaves every other
\* repository entry and every other file entry of r as it was; so after k
\* calls for a repository its total_commits is k.
C13_RecordCommitCumulative ==
    /\ [][(pc = "store" /\ AddCommitStep)
          => CumulativeStep(stats, stats', ThisCall.repo, ThisCall.file)]_vars
    /\ [](pc = "store" => \A r \in RepoPaths : RepoTotal(stats, r) = CallsTo(r))

\* three calls: a repository with both files and a count of 2, and another one
C13_Witness ==
    /\ pc = "store"
    /\ Len(call_log) = 3
    /\ \E r \in RepoPaths :
          /\ RepoTotal(stats, r) = 2
          /\ FilesOf(stats, r) = FilePaths
          /\ \E r2 \in RepoPaths \ {r} : RepoTotal(stats, r2) = 1

(* ----------------------------- persistence ---------------------------- *)
\* the document in the statistics file, None when the file holds none
Persisted(file) == IF file[1] = "doc" THEN file[2] ELSE None
LastCall == call_log[Len(call_log)]
CallDate(c) == strftime_date(date_of(strptime_timestamp(c.timestamp)))

\* C14: whenever add_commit returns normally the file holds the complete
\* in-memory statistics, the streak update of that commit included, whatever
\* the file held before; after a completed add_commit memory and file agree.
C14_PersistsFullStore ==
    /\ [][(pc = "store_io" /\ AddCommitStep /\ ThisCall.result = "ok")
          => /\ stats_file' = FileWith(json_dump(stats'))
             /\ ~load_stats(stats_file').raised
             /\ load_stats(stats_file').stats = stats'
             /\ Persisted(stats_file').commit_streaks.last_commit_date
                   = json_encode_str(CallDate(ThisCall))]_vars
    /\ []((pc = "store_io" /\ call_log # <<>> /\ LastCall.result = "ok")
          => load_stats(stats_file).stats = stats)

\* a save that succeeds after one that failed: the file is replaced whole
C14_Witness ==
    /\ pc = "store_io"
    /\ Len(call_log) = 2
    /\ call_log[1].result = "io_error"
    /\ call_log[2].result = "ok"
    /\ call_log[1].repo # call_log[2].repo
    /\ Persisted(stats_file).total_commits = 2
    /\ DOMAIN Persisted(stats_file).repositories = RepoPaths

\* C15 (as claimed): whatever makes the read of the statistics file fail,
\* constructing RepositoryStatistics raises nothing and leaves the freshly
\* initialised structure.
C15_ReadFailureGivesFreshStats ==
    (pc # "start" /\ calls.file_at_start[1] # "doc")
        => (pc # "raised" /\ stats = FreshStats)

\* C16: when save_stats raises, the error leaves add_commit and every
\* increment of the call stays in memory: repository and file counts, the
\* hour and weekday buckets, the global total and the streak.
C16_FailedSaveKeepsMemory ==
    [][(pc = "store_io" /\ AddCommitStep /\ ThisCall.result = "io_error")
       => LET r == ThisCall.repo
              f == ThisCall.file
              t == strptime_timestamp(ThisCall.timestamp)
              old == IF HasKey(stats.repositories, r) THEN stats.repositories[r]
                     ELSE FreshRepoStats
              new == stats'.repositories[r]
          IN /\ CumulativeStep(stats, stats', r, f)
             /\ stats'.total_commits = stats.total_commits + 1
             /\ new.active_hours[t.hour] = old.active_hours[t.hour] + 1
             /\ new.active_days[weekday(t)] = old.active_days[weekday(t)] + 1
             /\ new.last_commit = ThisCall.timestamp
             /\ stats'.commit_streaks.last_commit_date = CallDate(ThisCall)
             /\ stats'.commit_streaks.current >= 1
             /\ stats_file' # FileWith(json_dump(stats'))]_vars

\* one commit saved, the next one in memory only
C16_Witness ==
    /\ pc = "store_io"
    /\ Len(call_log) = 2
    /\ call_log[1].result = "ok"
    /\ call_log[2].result = "io_error"
    /\ stats.total_commits = 2
    /\ stats.commit_streaks.current = 2
    /\ stats_file[1] = "doc"
    /\ Persisted(stats_file).total_commits = 1

C18_CountInRange ==
    pc = "counted"
        => /\ commits_this_repo \in 1..(CommitCap + 1)
           /\ commits_this_repo = (IF j < CommitCap THEN j + 1 ELSE CommitCap + 1)

\* a sample beyond the cap
C18_Witness ==
    /\ pc = "counted"
    /\ j > CommitCap + 1
    /\ commits_this_repo = CommitCap + 1

(* ---------------------------- two writers ----------------------------- *)
\* the statistics held by the instance that made the last add_commit call
LastWriterStats == IF LastCall.by = "first" THEN stats ELSE other_stats

\* C19: with two instances on one file and nothing serialising them, the
\* file holds the statistics of the instance that saved last and nothing of
\* what the other instance saved in between (the state C19_Witness shows:
\* fewer commits in the file than add_commit calls completed).
C19_LastWriterWins ==
    (pc = "shared" /\ call_log # <<>>)
        => /\ stats_file = save_stats(LastWriterStats)
           /\ Persisted(stats_file).total_commits = LastWriterStats.total_commits
           /\ Persisted(stats_file).total_commits <= Len(call_log)

\* both instances loaded the empty store and each recorded one commit: two
\* calls completed, the file counts one, and the first writer's repository
\* entry is gone from it
C19_Witness ==
    /\ pc = "shared"
    /\ Len(call_log) = 2
    /\ call_log[1].by # call_log[2].by
    /\ call_log[1].repo # call_log[2].repo
    /\ Persisted(stats_file).total_commits = 1
    /\ DOMAIN Persisted(stats_file).repositories = {call_log[2].repo}

(* ------------------------- streak and dates --------------------------- *)
\* C21 (as claimed): after any sequence of add_commit calls, dates in any
\* order, current is at most the number of distinct dates recorded.
C21_CurrentAtMostDistinctDates ==
    pc = "streak" => stats.commit_streaks.current <= Cardinality(Range(recorded))

\* C22: in state active-streak, a commit dated more than one day after
\* last_commit_date sets current to 1 and last_commit_date to its date and
\* leaves longest as it is; no add_commit lowers longest.
C22_GapKeepsLongest ==
    /\ [][(pc = "streak" /\ AddCommitStep /\ ActiveStreak /\ StepDaysDiff > 1)
          => /\ stats'.commit_streaks.current = 1
             /\ stats'.commit_streaks.last_commit_date = NewDate
             /\ stats'.commit_streaks.longest = stats.commit_streaks.longest]_vars
    /\ [][pc = "streak"
          => stats'.commit_streaks.longest >= stats.commit_streaks.longest]_vars

\* a streak of 2, then a gap: longest stays 2 while current falls to 1
C22_Witness ==
    /\ pc = "streak"
    /\ Len(recorded) = MaxStreakCommits
    /\ Gap(Len(recorded) - 1) > 1
    /\ stats.commit_streaks.longest = 2
    /\ stats.commit_streaks.current = 1

(* ------------------------- selection and budget ----------------------- *)
\* C23: when some candidate passes check_access the batch goes on, the
\* selected repositories are a non-empty list without repetition of
\* candidates that passed, and a candidate that failed check_access never
\* receives a git_commit call.
C23_TargetSelection ==
    (pc \notin {"start", "raised"} /\ calls.accessible # {})
    => /\ pc # "returned"
       /\ Range(available_repos) = calls.accessible
       /\ pc # "prompt" =>
             /\ selected_repos # <<>>
             /\ Cardinality(Selected) = Len(selected_repos)
             /\ Selected \subseteq calls.accessible
       /\ \A r \in Repos \ calls.accessible :
             calls.attempts[r] = 0 /\ calls.alloc[r] = 0

\* one candidate failed check_access, the other was selected and committed to
C23_Witness ==
    /\ BatchOver
    /\ calls.accessible # {}
    /\ calls.accessible # Repos
    /\ Selected = calls.accessible
    /\ \A r \in calls.accessible : calls.successes[r] >= 1

\* C25: in budget mode with total >= 0 the git_commit calls of the batch
\* never number more than total, whatever the subset size and whichever
\* calls fail; a slot skipped for an upper bound <= 0 receives no call.
C25_BudgetNeverExceeded ==
    (use_commit_control /\ total_commit_input >= 0 /\ pc \notin {"start", "prompt"})
    => /\ TotalAttempts <= total_commit_input
       /\ \A r \in Repos : calls.attempts[r] <= Max(calls.alloc[r], 0)
       /\ BatchOver => TotalAlloc = total_commit_input

\* a subset larger than the budget: the first slot is skipped, the last
\* receives the whole budget
C25_Witness ==
    /\ use_commit_control
    /\ BatchOver
    /\ total_commit_input >= 1
    /\ Len(selected_repos) > total_commit_input
    /\ calls.attempts[selected_repos[1]] = 0
    /\ TotalAttempts = total_commit_input

(* ------------------------------ accounting ---------------------------- *)
\* the sum of field total_commits over the repositories of st
SumRepoTotals(st) ==
    SumOver([r \in DOMAIN st.repositories |-> st.repositories[r].total_commits],
            DOMAIN st.repositories)
\* the sum of the commits of the files of a repository entry
SumFileCommits(rs) ==
    SumOver([f \in DOMAIN rs.files |-> rs.files[f].commits], DOMAIN rs.files)

\* C24: in a store that started empty, after any sequence of add_commit
\* calls the global total_commits is the sum of the repositories'
\* total_commits, and each repository's total_commits is the sum of its
\* files' commits, of its 24 active_hours and of its 7 active_days.
C24_AccountingConsistent ==
    pc = "store" =>
        /\ stats.total_commits = SumRepoTotals(stats)
        /\ stats.total_commits = Len(call_log)
        /\ \A r \in DOMAIN stats.repositories :
              LET rs == stats.repositories[r] IN
              /\ rs.total_commits = SumFileCommits(rs)
              /\ rs.total_commits = SumOver(rs.active_hours, DOMAIN rs.active_hours)
              /\ rs.total_commits = SumOver(rs.active_days, DOMAIN rs.active_days)
              /\ DOMAIN rs.active_hours = 0..(HoursPerDay - 1)
              /\ DOMAIN rs.active_days = 0..(DaysPerWeek - 1)

\* three commits over both repositories, two files and two weekdays
C24_Witness ==
    /\ pc = "store"
    /\ stats.total_commits = 3
    /\ DOMAIN stats.repositories = RepoPaths
    /\ \E r \in RepoPaths :
          LET rs == stats.repositories[r] IN
          /\ rs.total_commits = 2
          /\ DOMAIN rs.files = FilePaths
          /\ \E d1, d2 \in DOMAIN rs.active_days :
                d1 # d2 /\ rs.active_days[d1] = 1 /\ rs.active_days[d2] = 1

\* C26: add_commit leaves the repository's commit_types and the file's
\* changes_per_month and complexity_score alone: in a store that started
\* empty they keep their initial values, in memory and in the file.
C26_TypeAndAggregatesUntouched ==
    pc = "store" =>
        \A st \in {stats} \cup (IF stats_file[1] = "doc"
                                THEN {load_stats(stats_file).stats} ELSE {}) :
           \A r \in DOMAIN st.repositories :
              /\ st.repositories[r].commit_types = FreshRepoStats.commit_types
              /\ \A f \in DOMAIN st.repositories[r].files :
                    LET fs == st.repositories[r].files[f] IN
                    /\ fs.changes_per_month = FreshFileStats.changes_per_month
                    /\ fs.complexity_score = FreshFileStats.complexity_score

\* three commits on one file of one repository
C26_Witness ==
    /\ pc = "store"
    /\ \E r \in RepoPaths, f \in FilePaths :
          /\ DOMAIN stats.repositories = {r}
          /\ DOMAIN stats.repositories[r].files = {f}
          /\ stats.repositories[r].files[f].commits = 3
          /\ stats.repositories[r].commit_types = EmptyDict

====
